---- MODULE Spec2Model ----
(***************************************************************************)
(* Put-Oportunity-Finder: the React front end (frontend/src/App.tsx) and   *)
(* the classification stage of the back end it queries.                    *)
(*                                                                         *)
(* Eight specifications share this module:                                 *)
(*   SpecRender   the render pass of App over `records` (classifyRow, the  *)
(*                BEST detection, the score and css class of every row)    *)
(*   SpecClassify classifyRow on one row                                   *)
(*   SpecDates    buildExpirationList on a base string and a count         *)
(*   SpecBackend  the back end's per-contract classifier and the three     *)
(*                lists it returns, followed by the front end's render     *)
(*   SpecSort     the render pass over rows in any order of strike         *)
(*   Spec         fetchAll: one request per expiration, responses in any   *)
(*                order, Promise.all, and the state it writes, with live   *)
(*                update off                                               *)
(*   SpecLive     fetchAll with the Live update checkbox and the interval  *)
(*                of the auto-refresh, each call followed to the step that *)
(*                settles it                                               *)
(*   SpecControls the profile buttons, Factory defaults and the filter     *)
(*                controls, with the Load click that sends their values    *)
(* Numbers that are fractions in the program are scaled to integers:       *)
(* deltas and credit percentages are counted in hundredths.                *)
(***************************************************************************)
EXTENDS Integers, Sequences, FiniteSets, TLC

VARIABLES
    \* ---- React state of App (App.tsx 237-273) ----
    expiration,       \* base expiration control, a string of characters
    numExpirations,   \* 1..3
    showNeighbors,
    records,          \* RollingResponse[]
    loading,
    error,            \* Null or a message
    lastUpdated,      \* Null or the number of the query that set it
    lastQuery,        \* Null or QueryParams
    liveUpdate,
    countdown,        \* Null or the seconds to the next auto-refresh
    \* ---- the filters of the control panel (App.tsx 241-255): deltas in
    \* hundredths, credits in hundredths of a percent ----
    profile, deltaMin, deltaMax, creditMin, creditMax, bandWindow,
    \* ---- the async calls of fetchAll in flight or finished ----
    queries,          \* sequence of calls, in the order they were started
    \* ---- what the last render pass produced from the state ----
    view,
    \* ---- one row under classifyRow (SpecClassify) ----
    crow, cresult,
    \* ---- buildExpirationList under test (SpecDates) ----
    base, count, result,
    resultLocal,      \* Null or what the second front end built, and where
    \* ---- back end: one request and its chain (SpecBackend) ----
    chain, band, filter, response

vars == <<expiration, numExpirations, showNeighbors, records, loading, error,
          lastUpdated, lastQuery, liveUpdate, countdown, queries, view,
          profile, deltaMin, deltaMax, creditMin, creditMax, bandWindow,
          crow, cresult,
          base, count, result, resultLocal, chain, band, filter, response>>

appVars     == <<expiration, numExpirations, loading, lastUpdated, lastQuery,
                 liveUpdate, countdown, queries>>
filterVars  == <<profile, deltaMin, deltaMax, creditMin, creditMax, bandWindow>>
renderVars  == <<showNeighbors, records, error, view>>
classVars   == <<crow, cresult>>
dateVars    == <<base, count, result, resultLocal>>
backendVars == <<chain, band, filter, response>>

\* `null` / `undefined` of the program: an optional number is <<>> or <<n>>.
Null == <<>>
Some(n) == <<n>>
NotRendered == [rendered |-> FALSE, tables |-> <<>>]
Rendered(tables) == [rendered |-> TRUE, tables |-> tables]

(***************************************************************************)
(* Helpers of App.tsx                                                      *)
(***************************************************************************)

\* A mutant of classifyRow: the XOR test replaced by a test of meets_delta alone.
classifyRow_DeltaOnly(row) ==
    IF row.type = "neighbor" THEN "neighbor"
    ELSE IF ~row.meets_band THEN "neighbor"
    ELSE IF row.meets_delta /\ row.meets_credit THEN "opportunity"
    ELSE IF row.meets_delta THEN "candidate_strong"
    ELSE "candidate"

\* A mutant of classifyRow: the early return for neighbors is missing.
classifyRow_NoNeighborGuard(row) ==
    IF ~row.meets_band THEN "neighbor"
    ELSE IF row.meets_delta /\ row.meets_credit THEN "opportunity"
    ELSE IF row.meets_delta /= row.meets_credit THEN "candidate_strong"
    ELSE "candidate"

\* A mutant of classifyRow: the test of meets_band is inverted.
classifyRow_BandInverted(row) ==
    IF row.type = "neighbor" THEN "neighbor"
    ELSE IF row.meets_band THEN "neighbor"
    ELSE IF row.meets_delta /\ row.meets_credit THEN "opportunity"
    ELSE IF row.meets_delta /= row.meets_credit THEN "candidate_strong"
    ELSE "candidate"

\* App.tsx 84-109
classifyRow(row) ==
    IF row.type = "neighbor" THEN "neighbor"
    ELSE IF ~row.meets_band THEN "neighbor"
    ELSE IF row.meets_delta /\ row.meets_credit THEN "opportunity"
    ELSE IF row.meets_delta /= row.meets_credit THEN "candidate_strong"
    ELSE "candidate"

\* A mutant of scoreForClassification: a strong candidate gets the check mark.
scoreForClassification_StrongMarked(c) ==
    CASE c = "best"             -> "STAR"
      [] c = "opportunity"      -> "CHECK"
      [] c = "candidate_strong" -> "CHECK"
      [] OTHER                  -> ""

\* App.tsx 124-137.  "STAR" is the promoted marker, "CHECK" the match marker.
scoreForClassification(c) ==
    CASE c = "best"        -> "STAR"
      [] c = "opportunity" -> "CHECK"
      [] OTHER             -> ""

\* App.tsx 139-159
rowClassForClassification(c) ==
    CASE c = "best"             -> "row-best"
      [] c = "opportunity"      -> "row-best"
      [] c = "candidate_strong" -> "row-opportunity"
      [] c = "candidate"        -> "row-candidate"
      [] c = "neighbor"         -> "row-neighbor"
      [] OTHER                  -> ""

\* Array.prototype.sort((a, b) => a.strike_price - b.strike_price): a stable
\* sort; it returns a new sequence here because App sorts a fresh copy.
\* A mutant of InsertByStrike: a row goes before the rows of its own strike.
RECURSIVE InsertByStrike_TiesFirst(_, _)
InsertByStrike_TiesFirst(row, s) ==
    IF s = <<>> THEN <<row>>
    ELSE IF Head(s).strike_price - row.strike_price >= 0
         THEN <<row>> \o s
         ELSE <<Head(s)>> \o InsertByStrike_TiesFirst(row, Tail(s))

RECURSIVE InsertByStrike(_, _)
InsertByStrike(row, s) ==
    IF s = <<>> THEN <<row>>
    ELSE IF Head(s).strike_price - row.strike_price > 0
         THEN <<row>> \o s
         ELSE <<Head(s)>> \o InsertByStrike(row, Tail(s))

RECURSIVE SortByStrike(_)
SortByStrike(s) ==
    IF s = <<>> THEN <<>>
    ELSE InsertByStrike(s[Len(s)], SortByStrike(SubSeq(s, 1, Len(s) - 1)))

SetMax(S) == CHOOSE x \in S : \A y \in S : y <= x

\* A mutant of baseRows: the opportunities are spread twice.
baseRows_Twice(data, show) ==
    data.opportunities \o data.opportunities \o
        (IF show THEN data.neighbors ELSE <<>>)

\* App.tsx 733-736
baseRows(data, show) ==
    data.opportunities \o (IF show THEN data.neighbors ELSE <<>>)

\* App.tsx 743-751
Prelim(sorted) ==
    [i \in 1..Len(sorted) |->
        [classification |-> classifyRow(sorted[i]), score |-> "", rowClass |-> ""]
            @@ sorted[i]]

IsFullMatch(r) == r.classification = "opportunity" /\ r.credit_pct /= Null

\* A mutant of MaxCreditOf: Math.max is taken without the test of
\* fullMatches.length, over the credits and the 0 that stands in for a missing one.
MaxCreditOf_Unguarded(prelim) ==
    LET fullMatches == SelectSeq(prelim, IsFullMatch)
    IN  Some(SetMax({fullMatches[i].credit_pct[1] : i \in 1..Len(fullMatches)} \cup {0}))

\* A mutant of MaxCreditOf: the minimum is taken.
MaxCreditOf_Min(prelim) ==
    LET fullMatches == SelectSeq(prelim, IsFullMatch)
    IN  IF Len(fullMatches) > 0
        THEN Some(CHOOSE x \in {fullMatches[i].credit_pct[1] : i \in 1..Len(fullMatches)} :
                    \A j \in 1..Len(fullMatches) : x <= fullMatches[j].credit_pct[1])
        ELSE Null

\* App.tsx 754-762
MaxCreditOf(prelim) ==
    LET fullMatches == SelectSeq(prelim, IsFullMatch)
    IN  IF Len(fullMatches) > 0
        THEN Some(SetMax({fullMatches[i].credit_pct[1] : i \in 1..Len(fullMatches)}))
        ELSE Null

\* A mutant of RowsWithScore: the two tests for null are missing, so a missing
\* credit equals a missing maximum.
RowsWithScore_NoNullTests(prelim, maxCredit) ==
    [i \in 1..Len(prelim) |->
        LET row == prelim[i]
            classification ==
                IF /\ row.classification = "opportunity"
                   /\ row.credit_pct = maxCredit
                THEN "best"
                ELSE row.classification
        IN  [classification |-> classification,
             score          |-> scoreForClassification(classification),
             rowClass       |-> rowClassForClassification(classification)] @@ row]

\* App.tsx 764-785
RowsWithScore(prelim, maxCredit) ==
    [i \in 1..Len(prelim) |->
        LET row == prelim[i]
            classification ==
                IF /\ row.classification = "opportunity"
                   /\ maxCredit /= Null
                   /\ row.credit_pct /= Null
                   /\ row.credit_pct = maxCredit
                THEN "best"
                ELSE row.classification
        IN  [classification |-> classification,
             score          |-> scoreForClassification(classification),
             rowClass       |-> rowClassForClassification(classification)] @@ row]

\* App.tsx 732-793: the body of records.map for one expiration.
RenderExpiration(data, show) ==
    LET prelim == Prelim(SortByStrike(baseRows(data, show)))
    IN  [rows       |-> RowsWithScore(prelim, MaxCreditOf(prelim)),
         incomplete |-> SortByStrike(data.incomplete)]

\* A mutant of RenderRecords: the best credit is taken over the whole batch.
RenderRecords_CrossRanked(recs, show) ==
    LET prelims == [i \in 1..Len(recs) |-> Prelim(SortByStrike(baseRows(recs[i], show)))]
        credits == UNION {{prelims[i][j].credit_pct[1] :
                             j \in {k \in 1..Len(prelims[i]) : IsFullMatch(prelims[i][k])}} :
                          i \in 1..Len(recs)}
        maxCredit == IF credits /= {} THEN Some(SetMax(credits)) ELSE Null
    IN  [i \in 1..Len(recs) |->
            [rows       |-> RowsWithScore(prelims[i], maxCredit),
             incomplete |-> SortByStrike(recs[i].incomplete)]]

\* App.tsx 730-732: records.map((data) => ...)
RenderRecords(recs, show) ==
    [i \in 1..Len(recs) |-> RenderExpiration(recs[i], show)]

\* App.tsx 728-730: the error banner replaces the tables.
RenderApp(err, recs, show) ==
    IF err /= Null THEN <<>>
    ELSE IF Len(recs) > 0 THEN RenderRecords(recs, show)
    ELSE <<>>

(***************************************************************************)
(* buildExpirationList (App.tsx 181-218) and the Date arithmetic it calls  *)
(* Strings are sequences of one-character strings.                         *)
(***************************************************************************)

Digits == <<"0", "1", "2", "3", "4", "5", "6", "7", "8", "9">>

IsDigit(c) == \E k \in 1..10 : Digits[k] = c

DigitValue(c) == (CHOOSE k \in 1..10 : Digits[k] = c) - 1

\* base.split("-")
RECURSIVE Split(_)
Split(s) ==
    IF \A k \in 1..Len(s) : s[k] /= "-" THEN <<s>>
    ELSE LET at == CHOOSE k \in 1..Len(s) :
                      s[k] = "-" /\ \A j \in 1..(k - 1) : s[j] /= "-"
         IN  <<SubSeq(s, 1, at - 1)>> \o Split(SubSeq(s, at + 1, Len(s)))

RECURSIVE DecimalValue(_)
DecimalValue(s) ==
    IF s = <<>> THEN 0
    ELSE 10 * DecimalValue(SubSeq(s, 1, Len(s) - 1)) + DigitValue(s[Len(s)])

\* Number(str) for a string of digits and letters: the empty string is 0, a
\* string of digits its decimal value, anything else NaN (Null here).
Number(s) ==
    IF \A k \in 1..Len(s) : IsDigit(s[k]) THEN Some(DecimalValue(s)) ELSE Null

\* !x for x = Number(...): true of NaN and of 0.
Falsy(x) == x = Null \/ x = Some(0)

\* String(n) for an integer n >= 0.
RECURSIVE NumToString(_)
NumToString(n) ==
    IF n < 10 THEN <<Digits[n + 1]>>
    ELSE NumToString(n \div 10) \o <<Digits[(n % 10) + 1]>>

\* str.padStart(width, "0")
RECURSIVE PadStart(_, _)
PadStart(s, width) ==
    IF Len(s) >= width THEN s ELSE PadStart(<<"0">> \o s, width)

\* The day number (days since 1970-01-01) of the civil date y-m-d, m in 1..12:
\* ECMAScript's MakeDay for a month already in range.
DaysFromCivil(y, m, d) ==
    LET yy  == IF m <= 2 THEN y - 1 ELSE y
        era == yy \div 400
        yoe == yy - era * 400
        mp  == (m + 9) % 12
        doy == (153 * mp + 2) \div 5 + d - 1
        doe == yoe * 365 + yoe \div 4 - yoe \div 100 + doy
    IN  era * 146097 + doe - 719468

\* YearFromTime, MonthFromTime (1..12 here) and DateFromTime of a day number.
CivilFromDays(t) ==
    LET z   == t + 719468
        era == z \div 146097
        doe == z - era * 146097
        yoe == (doe - doe \div 1460 + doe \div 36524 - doe \div 146096) \div 365
        doy == doe - (365 * yoe + yoe \div 4 - yoe \div 100)
        mp  == (5 * doy + 2) \div 153
        d   == doy - (153 * mp + 2) \div 5 + 1
        m   == IF mp < 10 THEN mp + 3 ELSE mp - 9
        y   == yoe + era * 400 + (IF m <= 2 THEN 1 ELSE 0)
    IN  [year |-> y, month |-> m, date |-> d]

\* MakeDay(year, month, date) with month counted from 0 and allowed to overflow.
MakeDay(year, month0, date) ==
    DaysFromCivil(year + month0 \div 12, (month0 % 12) + 1, 1) + date - 1

\* Date.UTC(y, m - 1, d): a year in 0..99 stands for 1900 + year.
DateUTC(y, month0, d) ==
    MakeDay(IF y >= 0 /\ y <= 99 THEN 1900 + y ELSE y, month0, d)

\* dt.setUTCDate(n) on the date t
SetUTCDate(t, n) ==
    LET c == CivilFromDays(t) IN MakeDay(c.year, c.month - 1, n)

\* `${yyyy}-${mm}-${dd}` of App.tsx 210-214: the year is not padded.
FormatDate(t) ==
    LET c == CivilFromDays(t)
    IN  NumToString(c.year) \o <<"-">> \o PadStart(NumToString(c.month), 2)
            \o <<"-">> \o PadStart(NumToString(c.date), 2)

\* App.tsx 182-218
buildExpirationList(b, n) ==
    LET parts == Split(b)
    IN  IF Len(parts) /= 3 THEN [i \in 1..n |-> b]
        ELSE LET y == Number(parts[1])
                 m == Number(parts[2])
                 d == Number(parts[3])
             IN  IF Falsy(y) \/ Falsy(m) \/ Falsy(d) THEN [i \in 1..n |-> b]
                 ELSE LET baseDate == DateUTC(y[1], m[1] - 1, d[1])
                      IN  [i \in 1..n |->
                              FormatDate(SetUTCDate(baseDate,
                                  CivilFromDays(baseDate).date + 7 * (i - 1)))]

(***************************************************************************)
(* Values the state stays at in a specification that does not exercise it  *)
(***************************************************************************)

\* App.tsx 238: useState("2025-11-28")
DefaultExpiration == <<"2","0","2","5","-","1","1","-","2","8">>

\* App.tsx 225-234: the limits of the sliders.
DELTA_MAX_MIN  == 10
DELTA_MAX_MAX  == 50
CREDIT_MIN_MIN == 30
CREDIT_MIN_MAX == 200
BAND_MIN       == 1
BAND_MAX       == 10

\* App.tsx 241-255: the filters as useState leaves them.
FilterIdle ==
    /\ profile = "Normal"
    /\ deltaMin = DELTA_MAX_MIN
    /\ deltaMax = 30
    /\ creditMin = 70
    /\ creditMax = CREDIT_MIN_MAX
    /\ bandWindow = 1

AppIdle ==
    /\ FilterIdle
    /\ expiration = DefaultExpiration
    /\ numExpirations = 1
    /\ loading = FALSE
    /\ lastUpdated = Null
    /\ lastQuery = Null
    /\ liveUpdate = FALSE
    /\ countdown = Null
    /\ queries = <<>>

RenderIdle ==
    /\ showNeighbors = TRUE
    /\ records = <<>>
    /\ error = Null
    /\ view = NotRendered

ClassIdle == crow = Null /\ cresult = Null

DateIdle == base = <<>> /\ count = 0 /\ result = <<>> /\ resultLocal = Null

BackendIdle == chain = <<>> /\ band = Null /\ filter = Null /\ response = Null

(***************************************************************************)
(* SpecRender: the render pass over records                                *)
(***************************************************************************)

\* The most rows one response holds over its three lists.
MaxRows == 2

\* credit_pct values of the rows, in hundredths of a percent (0.60 %, 0.70 %).
CreditValues == {60, 70}

\* The fields of an OpportunityRow the render pass reads (App.tsx 28-33, 25),
\* but for type, option_ticker and strike_price, which the row's place in the
\* response gives: the back end sets type to the list it puts the row in.
RowShapes ==
    [meets_band : BOOLEAN, meets_delta : BOOLEAN, meets_credit : BOOLEAN,
     credit_pct : {Null} \cup {Some(c) : c \in CreditValues}]

\* Strikes fall, then repeat, along a response, so that sorting reorders rows
\* and meets equal strikes.
StrikeAt(p) == 100 - 5 * (p % 2)

MkRow(p, type, shape) ==
    [option_ticker |-> p, strike_price |-> StrikeAt(p), type |-> type] @@ shape

MkIncomplete(p) ==
    [option_ticker |-> p, strike_price |-> StrikeAt(p), reason_missing |-> "missing delta"]

\* A RollingResponse (App.tsx 39-53) with nO opportunities, nN neighbors and
\* nI incomplete rows.
MkResponse(date, oShapes, nShapes, nI) ==
    LET nO == Len(oShapes)
        nN == Len(nShapes)
    IN  [expiration_date |-> date,
         opportunities |-> [p \in 1..nO |-> MkRow(p, "opportunity", oShapes[p])],
         neighbors     |-> [p \in 1..nN |-> MkRow(nO + p, "neighbor", nShapes[p])],
         incomplete    |-> [p \in 1..nI |-> MkIncomplete(nO + nN + p)]]

\* records holds one response whose three lists share at most MaxRows rows.
IsResponseOf(recs, date) ==
    \E nO \in 0..MaxRows : \E nN \in 0..(MaxRows - nO) : \E nI \in 0..(MaxRows - nO - nN) :
        \E o \in [1..nO -> RowShapes] : \E n \in [1..nN -> RowShapes] :
            recs = <<MkResponse(date, o, n, nI)>>

\* The state after a successful query, rendered (App.tsx 327, 466, 728-793).
RenderInit ==
    /\ AppIdle /\ ClassIdle /\ DateIdle /\ BackendIdle
    /\ showNeighbors = TRUE
    /\ error = Null
    /\ IsResponseOf(records, DefaultExpiration)
    /\ view = NotRendered

\* React renders App from the current state (App.tsx 466, 728-793).
Render ==
    /\ ~view.rendered
    /\ view' = Rendered(RenderApp(error, records, showNeighbors))
    /\ UNCHANGED <<showNeighbors, records, error>>
    /\ UNCHANGED <<appVars, classVars, dateVars, backendVars, filterVars>>

\* App.tsx 668: onChange={(e) => setShowNeighbors(e.target.checked)}, and the
\* render the state change causes.
SetShowNeighbors(checked) ==
    /\ view.rendered
    /\ showNeighbors' = checked
    /\ view' = Rendered(RenderApp(error, records, checked))
    /\ UNCHANGED <<records, error>>
    /\ UNCHANGED <<appVars, classVars, dateVars, backendVars, filterVars>>

RenderNext ==
    \/ Render
    \/ \E checked \in BOOLEAN : SetShowNeighbors(checked)

SpecRender == RenderInit /\ [][RenderNext]_vars

(***************************************************************************)
(* SpecSort: the render pass over responses whose rows come in any order   *)
(* of strike, equal strikes included                                       *)
(***************************************************************************)

\* The most rows of one response here.
MaxSortRows == 3

SortStrikes == {90, 95, 100}

\* Every row of these responses is a full match with the same credit.
SortShape ==
    [meets_band |-> TRUE, meets_delta |-> TRUE, meets_credit |-> TRUE,
     credit_pct |-> Some(SetMax(CreditValues))]

WithStrikes(rows, strikes) ==
    [p \in 1..Len(rows) |-> [rows[p] EXCEPT !.strike_price = strikes[p]]]

SortInit ==
    /\ AppIdle /\ ClassIdle /\ DateIdle /\ BackendIdle
    /\ showNeighbors = TRUE
    /\ error = Null
    /\ view = NotRendered
    /\ \E nO \in 0..MaxSortRows : \E nN \in 0..(MaxSortRows - nO) :
         \E nI \in 0..(MaxSortRows - nO - nN) :
         \E so \in [1..nO -> SortStrikes] : \E sn \in [1..nN -> SortStrikes] :
           \E si \in [1..nI -> SortStrikes] :
             LET data == MkResponse(DefaultExpiration, [p \in 1..nO |-> SortShape],
                                    [p \in 1..nN |-> SortShape], nI)
             IN  records = <<[data EXCEPT !.opportunities = WithStrikes(@, so),
                                          !.neighbors     = WithStrikes(@, sn),
                                          !.incomplete    = WithStrikes(@, si)]>>

SpecSort == SortInit /\ [][RenderNext]_vars

(***************************************************************************)
(* SpecClassify: classifyRow on one row                                    *)
(***************************************************************************)

ClassifyInit ==
    /\ AppIdle /\ RenderIdle /\ DateIdle /\ BackendIdle
    /\ crow \in {Some(MkRow(p, type, shape)) :
                    p \in 1..2, type \in {"opportunity", "neighbor"}, shape \in RowShapes}
    /\ cresult = Null

Classify ==
    /\ cresult = Null
    /\ cresult' = Some(classifyRow(crow[1]))
    /\ UNCHANGED crow
    /\ UNCHANGED <<appVars, renderVars, dateVars, backendVars, filterVars>>

ClassifyNext == Classify

SpecClassify == ClassifyInit /\ [][ClassifyNext]_vars

(***************************************************************************)
(* SpecDates: buildExpirationList on a base string and a count             *)
(***************************************************************************)

\* App.tsx 459: Math.min(3, ...), the most expirations a query asks for.
MaxExpirations == 3

IsLeapYear(y) == ((y % 4) = 0 /\ (y % 100) /= 0) \/ (y % 400) = 0

DaysInMonth(y, m) ==
    IF m = 2 THEN (IF IsLeapYear(y) THEN 29 ELSE 28)
    ELSE IF m \in {4, 6, 9, 11} THEN 30 ELSE 31

\* YYYY-MM-DD of a calendar date, each field zero-padded.
Iso(c) ==
    <<Digits[((c.year \div 1000) % 10) + 1], Digits[((c.year \div 100) % 10) + 1],
      Digits[((c.year \div 10) % 10) + 1], Digits[(c.year % 10) + 1], "-",
      Digits[(c.month \div 10) + 1], Digits[(c.month % 10) + 1], "-",
      Digits[(c.date \div 10) + 1], Digits[(c.date % 10) + 1]>>

\* Years of the base dates tried: two below 1000, a century that is no leap
\* year, one that is, a leap year and the year of the default base date.
YearsTried == {50, 999, 1900, 2000, 2024, 2025}

WellFormedBases ==
    {Iso([year |-> t[1], month |-> t[2], date |-> t[3]]) :
        t \in {u \in YearsTried \X (1..12) \X (1..31) : u[3] <= DaysInMonth(u[1], u[2])}}

\* Base strings that are no date: empty, two parts, four parts, a part that is
\* no number, a part that is zero.
MalformedBases ==
    {<<>>,
     <<"2","0","2","5","-","1","1">>,
     <<"2","0","2","5","-","1","1","-","2","8","-","0","1">>,
     <<"2","0","2","5","-","a","a","-","2","8">>,
     <<"2","0","2","5","-","0","0","-","2","8">>,
     <<"0","0","0","0","-","1","1","-","2","8">>}

(***************************************************************************)
(* The second front end (the App.tsx kept in part_000): its                *)
(* buildExpirationList parses the base with the Date constructor and reads *)
(* and steps the date in the host's local time.                            *)
(***************************************************************************)

MinutesPerDay == 1440

\* Offsets of the host's local time from UTC, in minutes: New York in
\* winter, UTC, Berlin in summer.
HostZoneOffsets == {-300, 0, 120}

\* new Date(base) for the date-only form YYYY-MM-DD: midnight UTC of that
\* day, in minutes since the epoch; Null is an Invalid Date.
ParseDateOnly(b) ==
    IF /\ Len(b) = 10
       /\ b[5] = "-" /\ b[8] = "-"
       /\ \A k \in {1, 2, 3, 4, 6, 7, 9, 10} : IsDigit(b[k])
    THEN LET y == DecimalValue(SubSeq(b, 1, 4))
             m == DecimalValue(SubSeq(b, 6, 7))
             d == DecimalValue(SubSeq(b, 9, 10))
         IN  IF m \in 1..12 /\ d \in 1..DaysInMonth(y, m)
             THEN Some(DaysFromCivil(y, m, d) * MinutesPerDay)
             ELSE Null
    ELSE Null

\* The local day number of the instant t on a host `offset` minutes from UTC.
\* (\div rounds down, as the local day of an instant before midnight needs.)
LocalDay(t, offset) == (t + offset) \div MinutesPerDay

\* part_000 127-144.  setDate, getFullYear, getMonth and getDate are all
\* local, so element i is the local day of the base instant plus 7 * i days.
buildExpirationListLocal(b, n, offset) ==
    LET baseDate == ParseDateOnly(b)
    IN  IF baseDate = Null
        THEN [i \in 1..n |-> b]
        ELSE [i \in 1..n |->
                 LET c == CivilFromDays(LocalDay(baseDate[1], offset))
                 IN  FormatDate(MakeDay(c.year, c.month - 1, c.date + 7 * (i - 1)))]

\* A call of fetchAll starts in this step.
QueryStarts == Len(queries') = Len(queries) + 1

StartedCall == queries'[Len(queries')]

\* The interval runs exactly while live update is on and a query has been
\* issued, and the countdown is one of 1..10.
CountdownRuns ==
    /\ countdown # Null <=> (liveUpdate /\ lastQuery # Null)
    /\ countdown # Null => countdown[1] \in 1..10

\* A step of the running countdown: it goes down by one second without a
\* query, or from 1 back to 10 with the auto-refresh, or a Load click sets it
\* to 10 again.
CountdownStep ==
    (countdown # Null /\ countdown' # Null /\ countdown' # countdown) =>
        \/ /\ countdown[1] > 1
           /\ countdown'[1] = countdown[1] - 1
           /\ queries' = queries
        \/ /\ countdown[1] = 1 /\ countdown'[1] = 10
           /\ QueryStarts /\ StartedCall.by = "timer"
        \/ /\ countdown'[1] = 10
           /\ QueryStarts /\ StartedCall.by = "load"

\* The auto-refresh starts at the tenth tick and with the parameters of the
\* last issued query, which it leaves in lastQuery.
RefreshUsesLastQuery ==
    (QueryStarts /\ StartedCall.by = "timer") =>
        /\ liveUpdate /\ lastQuery # Null
        /\ countdown = Some(1) /\ countdown' = Some(10)
        /\ StartedCall.params = lastQuery[1]
        /\ lastQuery' = lastQuery
        /\ StartedCall.expirations =
               buildExpirationList(lastQuery[1].expiration, lastQuery[1].numExpirations)

\* C19: while live update is on and a query has been issued, a re-fetch is
\* started after every 10 one-second ticks, and it uses the parameters of the
\* last issued query, not the values the controls have by then.
C19_RefreshEveryTenTicksFromLastQuery ==
    [] CountdownRuns /\ [][CountdownStep /\ RefreshUsesLastQuery]_vars

\* The auto-refresh has just sent one request, as the last query did, while
\* the control asks for three expirations.
C19_Witness ==
    /\ liveUpdate
    /\ countdown = Some(10)
    /\ Len(queries) = 2
    /\ queries[1].by = "load" /\ queries[2].by = "timer"
    /\ queries[2].params = queries[1].params
    /\ Len(queries[2].reqs) = 1
    /\ numExpirations = 3

\* The call that settles in this step, if one does, was started by `by`.
SettlesCallBy(by) ==
    \E q \in 1..Len(queries) :
        /\ queries[q].status = "pending"
        /\ queries'[q].status # "pending"
        /\ queries[q].by = by

\* While live update stays off no query is started but by a Load click, and
\* records and lastUpdated are written by no query but one a Load click
\* started.
FrozenWhileOff ==
    (~liveUpdate /\ ~liveUpdate') =>
        /\ QueryStarts => StartedCall.by = "load"
        /\ (records' # records \/ lastUpdated' # lastUpdated) => SettlesCallBy("load")

\* C20: while live update is off the snapshot is frozen: from the moment it
\* is turned off no query is started, and records and lastUpdated do not
\* change, until the user next clicks Load.
C20_FrozenWhileLiveOff == [][FrozenWhileOff]_vars

\* The part of C20 the code meets: with live update off only a Load click
\* starts a query.
C20_NoRefreshStartsWhileOff ==
    [][(~liveUpdate /\ QueryStarts) => StartedCall.by = "load"]_vars

DatesInit ==
    /\ AppIdle /\ RenderIdle /\ ClassIdle /\ BackendIdle
    /\ base \in WellFormedBases \cup MalformedBases
    /\ count \in 1..MaxExpirations
    /\ result = <<>>
    /\ resultLocal = Null

\* App.tsx 302-305: the call of buildExpirationList in fetchAll.
Build ==
    /\ result = <<>>
    /\ result' = buildExpirationList(base, count)
    /\ UNCHANGED <<base, count, resultLocal>>
    /\ UNCHANGED <<appVars, renderVars, classVars, backendVars, filterVars>>

\* part_000 208: the same call in the second front end, on a host `offset`
\* minutes from UTC.
BuildLocal ==
    /\ result /= <<>>
    /\ resultLocal = Null
    /\ \E offset \in HostZoneOffsets :
         resultLocal' = Some([offset |-> offset,
                              list   |-> buildExpirationListLocal(base, count, offset)])
    /\ UNCHANGED <<base, count, result>>
    /\ UNCHANGED <<appVars, renderVars, classVars, backendVars, filterVars>>

DatesNext == Build \/ BuildLocal

SpecDates == DatesInit /\ [][DatesNext]_vars

(***************************************************************************)
(* SpecBackend: the back end's classification stage for one expiration     *)
(* (backend/main.py, modelled from the specification, sections 4.1-4.3),   *)
(* followed by the front end's render of its response.                     *)
(* Strikes and the expected move are in dollars, deltas in hundredths,     *)
(* put_mid in cents and credit_pct in hundredths of a percent.             *)
(***************************************************************************)

\* The most contracts in a chain.
MaxChain == 2

\* Section 4.1: lowerBand = atmStrike - expectedMove; no band for a spot <= 0
\* or a negative expected move (InvalidInputError).
BandContext(spotApprox, atmStrike, expectedMove) ==
    IF spotApprox <= 0 \/ expectedMove < 0 THEN Null
    ELSE Some([spot_approx |-> spotApprox, atm_strike |-> atmStrike,
               em |-> expectedMove, lower_band |-> atmStrike - expectedMove])

\* Section 4.2 step 1: the data a contract lacks.
ReasonMissing(c) ==
    IF c.delta = Null THEN "missing delta"
    ELSE IF c.put_mid = Null THEN "missing put_mid"
    ELSE ""

\* A mutant of IsComplete: an absent delta is read as 0.
IsComplete_DeltaDefaulted(c) == c.put_mid /= Null

IsComplete(c) == c.delta /= Null /\ c.put_mid /= Null

\* creditPct = putMid / spotApprox
CreditPct(c, b) == (c.put_mid[1] * 100) \div b.spot_approx

Abs(x) == IF x < 0 THEN 0 - x ELSE x

\* A mutant of MeetsBand: the window reaches below the lower band as well.
MeetsBand_Symmetric(c, b, f) ==
    /\ b.lower_band - f.bandWindow <= c.strike_price
    /\ c.strike_price <= b.lower_band + f.bandWindow

\* Section 4.2 step 2
MeetsBand(c, b, f) ==
    b.lower_band <= c.strike_price /\ c.strike_price <= b.lower_band + f.bandWindow

MeetsDelta(c, f) ==
    LET d == IF c.delta = Null THEN 0 ELSE c.delta[1]
    IN  f.deltaMin <= Abs(d) /\ Abs(d) <= f.deltaMax

MeetsCredit(c, b, f) ==
    f.creditMin <= CreditPct(c, b) /\ CreditPct(c, b) <= f.creditMax

\* Section 4.2: the kind of one contract; "dropped" is in none of the lists.
KindOf(c, b, f) ==
    IF ~IsComplete(c) THEN "incomplete"
    ELSE IF MeetsBand(c, b, f) /\ MeetsDelta(c, f) /\ MeetsCredit(c, b, f) THEN "opportunity"
    ELSE IF MeetsBand(c, b, f) THEN "neighbor"
    ELSE "dropped"

\* The row returned for a complete contract (OpportunityRow, App.tsx 12-33).
ClassifiedRowOf(c, b, f) ==
    [option_ticker |-> c.option_ticker,
     strike_price  |-> c.strike_price,
     delta         |-> c.delta,
     put_mid       |-> c.put_mid,
     credit_pct    |-> Some(CreditPct(c, b)),
     distance_to_lower_band |-> c.strike_price - b.lower_band,
     meets_band    |-> MeetsBand(c, b, f),
     meets_delta   |-> MeetsDelta(c, f),
     meets_credit  |-> MeetsCredit(c, b, f),
     type          |-> KindOf(c, b, f)]

\* The row returned for an incomplete contract (IncompleteRow, App.tsx 35-37).
IncompleteRowOf(c) ==
    [option_ticker |-> c.option_ticker,
     strike_price  |-> c.strike_price,
     delta         |-> c.delta,
     put_mid       |-> c.put_mid,
     reason_missing |-> ReasonMissing(c)]

OfKind(contracts, b, f, kind) ==
    SelectSeq(contracts, LAMBDA c : KindOf(c, b, f) = kind)

\* Section 4.3: the three lists, each ascending by strike.
Aggregate(date, contracts, b, f) ==
    LET opp == OfKind(contracts, b, f, "opportunity")
        nei == OfKind(contracts, b, f, "neighbor")
        inc == OfKind(contracts, b, f, "incomplete")
    IN  [expiration_date |-> date,
         lower_band    |-> b.lower_band,
         opportunities |-> SortByStrike([k \in 1..Len(opp) |-> ClassifiedRowOf(opp[k], b, f)]),
         neighbors     |-> SortByStrike([k \in 1..Len(nei) |-> ClassifiedRowOf(nei[k], b, f)]),
         incomplete    |-> SortByStrike([k \in 1..Len(inc) |-> IncompleteRowOf(inc[k])])]

Strikes == {94, 95, 96, 97, 98}

\* delta and put_mid of a contract: complete and matching, complete with too
\* little credit, complete with too large a delta, and lacking delta, put_mid
\* or both.
ContractData ==
    {<<Some(-20), Some(70)>>, <<Some(-20), Some(50)>>, <<Some(-40), Some(70)>>,
     <<Null, Some(70)>>, <<Some(-20), Null>>, <<Null, Null>>}

\* OptionContract of section 3; the option ticker is the place in the chain.
MkContract(p, strike, data) ==
    [option_ticker |-> p, strike_price |-> strike, delta |-> data[1], put_mid |-> data[2]]

\* The filters the front end sends with its defaults (App.tsx 225-248), with
\* a band window of w.
FilterWith(w) ==
    [deltaMin |-> 10, deltaMax |-> 30, creditMin |-> 70, creditMax |-> 200,
     bandWindow |-> w]

BackendInit ==
    /\ AppIdle /\ RenderIdle /\ ClassIdle /\ DateIdle
    /\ \E n \in 0..MaxChain :
         \E strikes \in [1..n -> Strikes] : \E data \in [1..n -> ContractData] :
            chain = [p \in 1..n |-> MkContract(p, strikes[p], data[p])]
    /\ band = BandContext(100, 100, 5)
    /\ filter \in {Some(FilterWith(w)) : w \in 1..2}
    /\ response = Null

\* GET /rolling-put-candidates/{ticker} for one expiration date.
BackendRespond ==
    /\ response = Null
    /\ band /= Null
    /\ response' = Some(Aggregate(DefaultExpiration, chain, band[1], filter[1]))
    /\ UNCHANGED <<chain, band, filter>>
    /\ UNCHANGED <<appVars, renderVars, classVars, dateVars, filterVars>>

\* App.tsx 326-327 and the render that follows: the response becomes records.
ShowResponse ==
    /\ response /= Null
    /\ ~view.rendered
    /\ records' = <<response[1]>>
    /\ view' = Rendered(RenderApp(error, <<response[1]>>, showNeighbors))
    /\ UNCHANGED <<showNeighbors, error>>
    /\ UNCHANGED <<appVars, classVars, dateVars, backendVars, filterVars>>

BackendNext == BackendRespond \/ ShowResponse

SpecBackend == BackendInit /\ [][BackendNext]_vars

(***************************************************************************)
(* Spec: fetchAll and the controls that feed it                            *)
(***************************************************************************)

\* The most calls of fetchAll in one behaviour.
MaxQueries == 2

\* Math.round(x) for x = h / 2: halves round up.
RoundHalves(h) == (h + 1) \div 2

\* A mutant of Min: the upper clamp is missing.
Min_NoClamp(a, b) == b

Min(a, b) == IF a <= b THEN a ELSE b
Max(a, b) == IF a >= b THEN a ELSE b

\* Values typed or slid into the number-of-expirations control, counted in
\* halves (3 is 1.5); Null is NaN, the parse of an empty field.
NumExpInputs == {Null} \cup {Some(h) : h \in {0, 3, 5, 9}}

\* What the back end sends for one request: it is told apart by the query and
\* the expiration_date of the URL it answers.
ResponseTo(q, expDate) == [query |-> q, expiration_date |-> expDate]

\* A failed request: fetch rejects, or resp.ok is false (App.tsx 318-321).
FailureMessages == {"Failed to fetch", "HTTP 500"}

Init ==
    /\ expiration = DefaultExpiration
    /\ numExpirations = 1
    /\ showNeighbors = TRUE
    /\ records = <<>>
    /\ loading = FALSE
    /\ error = Null
    /\ lastUpdated = Null
    /\ lastQuery = Null
    /\ liveUpdate = FALSE
    /\ countdown = Null
    /\ queries = <<>>
    /\ view = NotRendered
    /\ FilterIdle
    /\ ClassIdle /\ DateIdle /\ BackendIdle

\* App.tsx 457-461
handleNumExpChange(val) ==
    /\ IF val = Null
       THEN UNCHANGED numExpirations
       ELSE numExpirations' = Min(3, Max(1, RoundHalves(val[1])))
    /\ UNCHANGED <<expiration, loading, lastUpdated, lastQuery, liveUpdate, countdown, queries>>
    /\ UNCHANGED <<renderVars, classVars, dateVars, backendVars, filterVars>>

\* App.tsx 301-324: the requests one call of fetchAll sends, one per date of
\* the expiration list, and the promise it then awaits.
NewQuery(q, params, by) ==
    LET expirations == buildExpirationList(params.expiration, params.numExpirations)
    IN  [id          |-> q,
         by          |-> by,
         params      |-> params,
         expirations |-> expirations,
         reqs        |-> [i \in 1..Len(expirations) |-> "pending"],
         arrival     |-> <<>>,
         status      |-> "pending"]

\* App.tsx 8: REFRESH_INTERVAL_MS / 1000
RefreshSeconds == 10

\* App.tsx 371-378: the auto-refresh effect, run when liveUpdate or lastQuery
\* has changed: the countdown it leaves behind.  The interval it arms is
\* running exactly when the countdown is not null.
AutoRefreshEffect(live, query) ==
    IF ~live \/ query = Null THEN Null ELSE Some(RefreshSeconds)

\* App.tsx 282-324: fetchAll up to its await.  `by` records who called it.
fetchAllStart(params, by) ==
    /\ Len(queries) < MaxQueries
    /\ lastQuery' = Some(params)
    /\ loading' = TRUE
    /\ error' = Null
    /\ queries' = Append(queries, NewQuery(Len(queries) + 1, params, by))
    /\ UNCHANGED <<expiration, numExpirations, lastUpdated, liveUpdate>>
    /\ UNCHANGED <<showNeighbors, records, view>>
    /\ UNCHANGED <<classVars, dateVars, backendVars, filterVars>>

\* App.tsx 339-349: the QueryParams read from the controls.
ControlParams ==
    [expiration     |-> expiration,
     deltaMin       |-> deltaMin,
     deltaMax       |-> deltaMax,
     bandWindow     |-> bandWindow,
     creditMin      |-> creditMin,
     creditMax      |-> creditMax,
     showNeighbors  |-> showNeighbors,
     numExpirations |-> numExpirations]

\* App.tsx 338-351 and 685-689: the Load button is disabled while loading.
\* The params object is new, so the auto-refresh effect runs again.
handleLoadClick ==
    /\ ~loading
    /\ fetchAllStart(ControlParams, "load")
    /\ countdown' = AutoRefreshEffect(liveUpdate, lastQuery')

\* App.tsx 677 and 371-378: the Live update checkbox.
setLiveUpdate(checked) ==
    /\ checked # liveUpdate
    /\ liveUpdate' = checked
    /\ countdown' = AutoRefreshEffect(checked, lastQuery)
    /\ UNCHANGED <<expiration, numExpirations, loading, lastUpdated, lastQuery, queries>>
    /\ UNCHANGED <<renderVars, classVars, dateVars, backendVars, filterVars>>

\* A mutant of Tick: the refresh reads the controls, not lastQuery.
Tick_FromControls ==
    /\ countdown # Null
    /\ IF countdown[1] <= 1
       THEN /\ fetchAllStart(ControlParams, "timer")
            /\ countdown' = Some(RefreshSeconds)
       ELSE /\ countdown' = Some(countdown[1] - 1)
            /\ UNCHANGED <<expiration, numExpirations, loading, lastUpdated, lastQuery,
                           liveUpdate, queries>>
            /\ UNCHANGED <<renderVars, classVars, dateVars, backendVars, filterVars>>

\* A mutant of Tick: the re-fetch waits for the countdown to reach 0.
Tick_ShowsZero ==
    /\ countdown # Null
    /\ IF countdown[1] <= 0
       THEN /\ fetchAllStart(lastQuery[1], "timer")
            /\ countdown' = Some(RefreshSeconds)
       ELSE /\ countdown' = Some(countdown[1] - 1)
            /\ UNCHANGED <<expiration, numExpirations, loading, lastUpdated, lastQuery,
                           liveUpdate, queries>>
            /\ UNCHANGED <<renderVars, classVars, dateVars, backendVars, filterVars>>

\* App.tsx 379-388: one tick of the interval.  At 1 it calls fetchAll() with
\* no params, which takes lastQuery; setLastQuery of the same object does not
\* run the effect again.
Tick ==
    /\ countdown # Null
    /\ IF countdown[1] <= 1
       THEN /\ fetchAllStart(lastQuery[1], "timer")
            /\ countdown' = Some(RefreshSeconds)
       ELSE /\ countdown' = Some(countdown[1] - 1)
            /\ UNCHANGED <<expiration, numExpirations, loading, lastUpdated, lastQuery,
                           liveUpdate, queries>>
            /\ UNCHANGED <<renderVars, classVars, dateVars, backendVars, filterVars>>

\* A mutant of Results: Promise.all hands over the responses as they arrived.
Results_ArrivalOrder(call, arrival) ==
    [k \in 1..Len(arrival) |-> ResponseTo(call.id, call.expirations[arrival[k]])]

\* App.tsx 326: the value of Promise.all(promises), in the order of promises.
Results(call, arrival) ==
    [i \in 1..Len(call.expirations) |-> ResponseTo(call.id, call.expirations[i])]

\* The status of a response that is not ok.
FailureStatus == 500

\* The characters of the messages: `HTTP ${resp.status}` (App.tsx 320) and
\* the message of the TypeError that fetch rejects with (App.tsx 331).
MessageText(msg) ==
    IF msg = "HTTP 500"
    THEN <<"H", "T", "T", "P", " ">> \o NumToString(FailureStatus)
    ELSE <<"F", "a", "i", "l", "e", "d", " ", "t", "o", " ", "f", "e", "t", "c", "h">>

\* A mutant of RecordsOnFailure: the results of the dates that had succeeded
\* are kept.
RecordsOnFailure_KeepSiblings(call) ==
    SelectSeq([i \in 1..Len(call.reqs) |->
                  IF call.reqs[i] = "ok" THEN ResponseTo(call.id, call.expirations[i])
                  ELSE Null],
              LAMBDA r : r # Null)

\* App.tsx 332: setRecords([]) of the catch block.
RecordsOnFailure(call) == <<>>

\* App.tsx 318-335: request i of call q is answered (fetch and resp.json
\* settle without a write between them, so they are one step).  The last response that
\* is ok fulfils Promise.all and the try block goes on; the first one that
\* fails rejects it and the catch block runs; a response to a call already
\* rejected changes nothing.
Respond(q, i, ok, msg) ==
    /\ q \in 1..Len(queries)
    /\ i \in 1..Len(queries[q].reqs)
    /\ queries[q].reqs[i] = "pending"
    /\ LET call == queries[q]
           arrival == call.arrival \o <<i>>
       IN
       IF call.status = "rejected"
       THEN /\ queries' = [queries EXCEPT ![q].reqs[i] = "late"]
            /\ UNCHANGED <<records, lastUpdated, error, loading>>
       ELSE IF ok
       THEN IF \A j \in 1..Len(call.reqs) : j = i \/ call.reqs[j] = "ok"
            THEN /\ queries' = [queries EXCEPT ![q].reqs[i] = "ok", ![q].arrival = arrival,
                                               ![q].status = "fulfilled"]
                 /\ records' = Results(call, arrival)
                 /\ lastUpdated' = Some(q)
                 /\ loading' = FALSE
                 /\ UNCHANGED error
            ELSE /\ queries' = [queries EXCEPT ![q].reqs[i] = "ok", ![q].arrival = arrival]
                 /\ UNCHANGED <<records, lastUpdated, error, loading>>
       ELSE /\ queries' = [queries EXCEPT ![q].reqs[i] = "failed", ![q].arrival = <<>>,
                                          ![q].status = "rejected"]
            /\ error' = Some(msg)
            /\ records' = RecordsOnFailure(call)
            /\ loading' = FALSE
            /\ UNCHANGED lastUpdated
    /\ UNCHANGED <<expiration, numExpirations, lastQuery, liveUpdate, countdown>>
    /\ UNCHANGED <<showNeighbors, view>>
    /\ UNCHANGED <<classVars, dateVars, backendVars, filterVars>>

Next ==
    \/ \E val \in NumExpInputs : handleNumExpChange(val)
    \/ handleLoadClick
    \/ \E q \in 1..MaxQueries, i \in 1..MaxExpirations :
         \/ Respond(q, i, TRUE, "")
         \/ \E msg \in FailureMessages : Respond(q, i, FALSE, msg)

Spec == Init /\ [][Next]_vars

(***************************************************************************)
(* SpecLive: the same App with the Live update checkbox and the interval   *)
(* of the auto-refresh effect.  Calls of fetchAll may now overlap.  What a *)
(* call writes, it writes in the step that settles Promise.all; the        *)
(* responses before and after that step write nothing, so here a call is   *)
(* followed from its start to that step only.                              *)
(***************************************************************************)

\* App.tsx 326-335: Promise.all of call q settles.  It is fulfilled when the
\* last response has arrived, and the try block goes on; it is rejected when
\* request i is the first to fail, and the catch block runs.
Settle(q, ok, i, msg) ==
    /\ q \in 1..Len(queries)
    /\ queries[q].status = "pending"
    /\ i \in 1..Len(queries[q].reqs)
    /\ LET call == queries[q]
           n == Len(call.reqs)
           arrival == [k \in 1..n |-> k]
       IN
       IF ok
       THEN /\ queries' = [queries EXCEPT ![q].reqs = [k \in 1..n |-> "ok"],
                                          ![q].arrival = arrival,
                                          ![q].status = "fulfilled"]
            /\ records' = Results(call, arrival)
            /\ lastUpdated' = Some(q)
            /\ loading' = FALSE
            /\ UNCHANGED error
       ELSE /\ queries' = [queries EXCEPT ![q].reqs[i] = "failed",
                                          ![q].status = "rejected"]
            /\ error' = Some(msg)
            /\ records' = RecordsOnFailure(call)
            /\ loading' = FALSE
            /\ UNCHANGED lastUpdated
    /\ UNCHANGED <<expiration, numExpirations, lastQuery, liveUpdate, countdown>>
    /\ UNCHANGED <<showNeighbors, view>>
    /\ UNCHANGED <<classVars, dateVars, backendVars, filterVars>>

NextLive ==
    \/ \E val \in NumExpInputs : handleNumExpChange(val)
    \/ handleLoadClick
    \/ \E checked \in BOOLEAN : setLiveUpdate(checked)
    \/ Tick
    \/ \E q \in 1..MaxQueries :
         \/ Settle(q, TRUE, 1, "")
         \/ \E i \in 1..MaxExpirations, msg \in FailureMessages : Settle(q, FALSE, i, msg)

SpecLive == Init /\ [][NextLive]_vars

(***************************************************************************)
(* SpecControls: the profile buttons, Factory defaults and the filter      *)
(* controls, and the Load click that sends what they hold.  Deltas are     *)
(* counted in hundredths (0.30 is 30), credits in ten-thousandths (0.007,  *)
(* shown as 0.70 %, is 70).  The responses are left to Spec and SpecLive:  *)
(* here the request stays in flight, and the controls go on changing       *)
(* under it.                                                               *)
(***************************************************************************)

Profiles == {"Conservative", "Normal", "Aggressive"}

\* A mutant of ProfileDefaults: every button loads the values of Normal.
ProfileDefaults_AllNormal(p) == [deltaMax |-> 30, creditMin |-> 70]

\* App.tsx 404-416: what a profile sets Max Delta and Min Credit to.
ProfileDefaults(p) ==
    IF p = "Conservative" THEN [deltaMax |-> 25, creditMin |-> 60]
    ELSE IF p = "Aggressive" THEN [deltaMax |-> 35, creditMin |-> 70]
    ELSE [deltaMax |-> 30, creditMin |-> 70]

\* A mutant of applyProfile: line 402 is not commented out.
applyProfile_ResetsExpirations(p) ==
    /\ profile' = p
    /\ deltaMin' = DELTA_MAX_MIN
    /\ creditMax' = CREDIT_MIN_MAX
    /\ bandWindow' = 1
    /\ numExpirations' = 1
    /\ deltaMax' = ProfileDefaults(p).deltaMax
    /\ creditMin' = ProfileDefaults(p).creditMin
    /\ UNCHANGED <<expiration, loading, lastUpdated, lastQuery, liveUpdate, countdown, queries>>
    /\ UNCHANGED <<renderVars, classVars, dateVars, backendVars>>

\* App.tsx 395-417 (setNumExpirations(1) at line 402 is a comment).
applyProfile(p) ==
    /\ profile' = p
    /\ deltaMin' = DELTA_MAX_MIN
    /\ creditMax' = CREDIT_MIN_MAX
    /\ bandWindow' = 1
    /\ deltaMax' = ProfileDefaults(p).deltaMax
    /\ creditMin' = ProfileDefaults(p).creditMin
    /\ UNCHANGED <<appVars, renderVars, classVars, dateVars, backendVars>>

\* App.tsx 419-421
handleFactoryReset == applyProfile("Normal")

\* A mutant of markCustom: the profile is left as it is.
markCustom_Skipped == UNCHANGED profile

\* App.tsx 276-278
markCustom == profile' = IF profile # "Custom" THEN "Custom" ELSE profile

\* parseFloat of what the Max Delta slider or field holds, in hundredths;
\* Null is NaN.  0.05 is below the range, 0.60 above it.
DeltaInputs == {Null} \cup {Some(v) : v \in {5, 40, 60}}

\* The same for Min Credit, in ten-thousandths (the field gives percent and
\* its handler divides by 100, App.tsx 594-596).
CreditInputs == {Null} \cup {Some(v) : v \in {10, 100, 300}}

\* The same for the band distance, in halves: 0, 2.5 and 15.
BandInputs == {Null} \cup {Some(h) : h \in {0, 5, 30}}

\* App.tsx 424-436
handleDeltaMaxChange(val) ==
    /\ IF val = Null
       THEN UNCHANGED <<deltaMax, profile>>
       ELSE LET clamped == Max(DELTA_MAX_MIN, Min(DELTA_MAX_MAX, val[1]))
            IN  /\ deltaMax' = IF clamped < deltaMin THEN deltaMin ELSE clamped
                /\ markCustom
    /\ UNCHANGED <<deltaMin, creditMin, creditMax, bandWindow>>
    /\ UNCHANGED <<appVars, renderVars, classVars, dateVars, backendVars>>

\* A mutant of handleCreditMinChange: the value is stored as typed.
handleCreditMinChange_Unclamped(val) ==
    /\ IF val = Null
       THEN UNCHANGED <<creditMin, profile>>
       ELSE /\ creditMin' = val[1]
            /\ markCustom
    /\ UNCHANGED <<deltaMin, deltaMax, creditMax, bandWindow>>
    /\ UNCHANGED <<appVars, renderVars, classVars, dateVars, backendVars>>

\* App.tsx 438-444
handleCreditMinChange(val) ==
    /\ IF val = Null
       THEN UNCHANGED <<creditMin, profile>>
       ELSE /\ creditMin' = Max(CREDIT_MIN_MIN, Min(CREDIT_MIN_MAX, val[1]))
            /\ markCustom
    /\ UNCHANGED <<deltaMin, deltaMax, creditMax, bandWindow>>
    /\ UNCHANGED <<appVars, renderVars, classVars, dateVars, backendVars>>

\* App.tsx 446-455
handleBandWindowChange(val) ==
    /\ IF val = Null
       THEN UNCHANGED <<bandWindow, profile>>
       ELSE /\ bandWindow' = Max(BAND_MIN, Min(BAND_MAX, RoundHalves(val[1])))
            /\ markCustom
    /\ UNCHANGED <<deltaMin, deltaMax, creditMin, creditMax>>
    /\ UNCHANGED <<appVars, renderVars, classVars, dateVars, backendVars>>

NextControls ==
    \/ \E p \in Profiles : applyProfile(p)
    \/ handleFactoryReset
    \/ \E val \in DeltaInputs : handleDeltaMaxChange(val)
    \/ \E val \in CreditInputs : handleCreditMinChange(val)
    \/ \E val \in BandInputs : handleBandWindowChange(val)
    \/ \E val \in NumExpInputs : handleNumExpChange(val)
    \/ handleLoadClick

SpecControls == Init /\ [][NextControls]_vars

(***************************************************************************)
(* Claims about the profiles and the filter controls                       *)
(***************************************************************************)

\* The filters hold the documented defaults of the Normal profile.
NormalLoaded ==
    /\ profile = "Normal"
    /\ deltaMax = 30
    /\ creditMin = 70
    /\ bandWindow = 1

\* C21: clicking Factory defaults from any state applies the Normal profile
\* (profile Normal, Max Delta 0.30, Min credit 0.70 %, band distance 1) and
\* also resets the number of future expirations to 1.
C21_FactoryDefaultsResetsAll ==
    [][handleFactoryReset => (NormalLoaded' /\ numExpirations' = 1)]_vars

\* The part of C21 the code meets: Factory defaults applies the Normal
\* profile.
C21_FactoryDefaultsAppliesNormal ==
    [][handleFactoryReset => NormalLoaded']_vars

\* The Normal profile is loaded while the control asks for three expirations
\* and a request sent earlier carried a band distance of 10: Factory defaults
\* (or the Normal button) was clicked after both.
C21_WitnessNotReset ==
    /\ NormalLoaded
    /\ numExpirations = 3
    /\ queries # <<>>
    /\ queries[1].params.bandWindow = 10
    /\ queries[1].params.numExpirations = 3

\* The filters hold the documented defaults of profile p.
Loaded(p) ==
    /\ profile = p
    /\ p = "Conservative" => (deltaMax = 25 /\ creditMin = 60)
    /\ p = "Normal" => (deltaMax = 30 /\ creditMin = 70)
    /\ p = "Aggressive" => (deltaMax = 35 /\ creditMin = 70)
    /\ bandWindow = 1
    /\ deltaMin = 10
    /\ creditMax = 200

\* C22: clicking a profile button from any state sets profile to that profile
\* and loads its defaults: Conservative 0.25 and 0.60 %, Normal 0.30 and
\* 0.70 %, Aggressive 0.35 and 0.70 %; in all three band distance 1, lower
\* delta bound 0.10 and credit ceiling 2.00 %.  So while a named profile is
\* shown the filters hold exactly its defaults.
C22_ProfileLoadsDefaults ==
    /\ [] (profile \in Profiles => Loaded(profile))
    /\ [][\A p \in Profiles : applyProfile(p) => Loaded(p)']_vars

\* Conservative has been clicked after a request was sent with custom values.
C22_Witness ==
    /\ Loaded("Conservative")
    /\ queries # <<>>
    /\ queries[1].params.deltaMax = 50
    /\ queries[1].params.creditMin = 30
    /\ queries[1].params.bandWindow = 3

\* An accepted input to one of the three filter handlers.
ManualChange ==
    \/ \E val \in DeltaInputs \ {Null} : handleDeltaMaxChange(val)
    \/ \E val \in CreditInputs \ {Null} : handleCreditMinChange(val)
    \/ \E val \in BandInputs \ {Null} : handleBandWindowChange(val)

\* A value of Max Delta, Min Credit or the band distance changes in this step
\* and no profile is being loaded.
FilterEdited ==
    /\ <<deltaMax, creditMin, bandWindow>>' # <<deltaMax, creditMin, bandWindow>>
    /\ profile' \notin Profiles

\* C23: every accepted (non-NaN) input to handleDeltaMaxChange,
\* handleCreditMinChange or handleBandWindowChange leaves profile = Custom,
\* and the profile then stays Custom until a profile button or Factory
\* defaults is clicked.
C23_ManualChangeMarksCustom ==
    /\ [][(ManualChange \/ FilterEdited) => profile' = "Custom"]_vars
    /\ [][(profile = "Custom" /\ profile' # "Custom") =>
              (handleFactoryReset \/ \E p \in Profiles : applyProfile(p))]_vars

\* Custom after the band distance was set to 2.5, which is stored as 3.
C23_Witness ==
    /\ profile = "Custom"
    /\ bandWindow = 3
    /\ deltaMax = 30
    /\ creditMin = 70

\* What handleNumExpChange must leave alone.
ExceptNumExpirations ==
    <<filterVars, expiration, loading, lastUpdated, lastQuery, liveUpdate, countdown,
      queries, renderVars>>

\* C24: changing the number of future expirations changes only
\* numExpirations: it never switches the profile to Custom and leaves every
\* filter value unchanged; and clicking a profile button leaves
\* numExpirations unchanged.
C24_NumExpirationsApart ==
    /\ [][((\E val \in NumExpInputs : handleNumExpChange(val))
              \/ numExpirations' # numExpirations)
            => UNCHANGED ExceptNumExpirations]_vars
    /\ [][(\E p \in Profiles : applyProfile(p)) => UNCHANGED numExpirations]_vars

\* A named profile is shown with three expirations asked for: the change of
\* the number did not mark it Custom, and the click did not reset the number.
C24_Witness ==
    /\ profile = "Aggressive"
    /\ Loaded("Aggressive")
    /\ numExpirations = 3

\* The bounds a request carries are well-formed.
WellFormedBounds(p) ==
    /\ p.deltaMin = 10
    /\ 10 <= p.deltaMax /\ p.deltaMax <= 50
    /\ p.deltaMin <= p.deltaMax
    /\ p.creditMax = 200
    /\ 30 <= p.creditMin /\ p.creditMin <= p.creditMax
    /\ p.bandWindow \in 1..10

\* C25: every request sent to the backend, after any sequence of control
\* changes and profile clicks, carries well-formed positive bounds:
\* delta_min = 0.10, 0.10 <= delta_max <= 0.50 with delta_min <= delta_max,
\* credit_max_pct = 0.02, 0.003 <= credit_min_pct <= credit_max_pct, and
\* band_window an integer in 1..10.
C25_RequestsCarryWellFormedBounds ==
    /\ WellFormedBounds(ControlParams)
    /\ \A q \in 1..Len(queries) : WellFormedBounds(queries[q].params)

\* A request was sent after inputs beyond the range on all three filters:
\* it carries the limits.
C25_Witness ==
    /\ queries # <<>>
    /\ queries[1].params.deltaMax = 50
    /\ queries[1].params.creditMin = 200
    /\ queries[1].params.bandWindow = 10

(***************************************************************************)
(* Claims about fetchAll                                                   *)
(***************************************************************************)

\* The records a fulfilled call must have written: one response per date of
\* its expiration list, in the order of the list.
OneResultPerDate(call) ==
    /\ Len(call.expirations) = call.params.numExpirations
    /\ call.expirations[1] = call.params.expiration
    /\ Len(records) = Len(call.expirations)
    /\ \A i \in 1..Len(records) :
         records[i] = [query |-> call.id, expiration_date |-> call.expirations[i]]

AllArrived(call) == \A i \in 1..Len(call.reqs) : call.reqs[i] = "ok"

\* The records on display are those of the call that succeeded last.
RecordsAreLastSuccess ==
    records # <<>> =>
        /\ lastUpdated # Null
        /\ LET call == queries[lastUpdated[1]]
           IN  /\ call.status = "fulfilled"
               /\ AllArrived(call)
               /\ OneResultPerDate(call)

\* A step that writes records is either the catch block emptying them or the
\* fulfilment of a call all of whose responses have arrived.
RecordsWrittenAtFulfilment ==
    records' # records =>
        \/ records' = <<>> /\ error' # Null
        \/ \E q \in 1..Len(queries) :
             /\ queries[q].status = "pending"
             /\ queries'[q].status = "fulfilled"
             /\ AllArrived(queries'[q])
             /\ Len(records') = Len(queries[q].expirations)
             /\ \A i \in 1..Len(records') :
                  records'[i] = [query |-> q, expiration_date |-> queries[q].expirations[i]]

\* C9: when a query succeeds, records holds exactly one result per date of
\* the expiration list, in the order of that list (base first), whatever the
\* order in which the responses arrived; records is written only once every
\* response of the batch has arrived.
C9_RecordsInListOrder == [] RecordsAreLastSuccess /\ [][RecordsWrittenAtFulfilment]_vars

\* A call of three dates whose responses arrived last date first has
\* succeeded, and records is in list order.
C9_Witness ==
    /\ lastUpdated # Null
    /\ LET call == queries[lastUpdated[1]]
       IN  /\ call.status = "fulfilled"
           /\ call.arrival = <<3, 2, 1>>
           /\ Len(records) = 3
           /\ records[1].expiration_date = call.params.expiration
           /\ records[1].expiration_date # records[2].expiration_date
           /\ OneResultPerDate(call)

\* The call started last.
LastCall == queries[Len(queries)]

OkSiblings(call) == {i \in 1..Len(call.reqs) : call.reqs[i] = "ok"}

Includes(text, part) ==
    \E k \in 0..(Len(text) - Len(part)) : SubSeq(text, k + 1, k + Len(part)) = part

\* C18: when a query fails, the error shown names the expiration date whose
\* request failed; it is never a message that leaves the failed expiration
\* unidentified.
C18_ErrorNamesExpiration ==
    (queries # <<>> /\ LastCall.status = "rejected") =>
        /\ error # Null
        /\ \E i \in 1..Len(LastCall.reqs) :
             /\ LastCall.reqs[i] = "failed"
             /\ Includes(MessageText(error[1]), LastCall.expirations[i])

\* What the code does instead: the message is one of two fixed texts, the
\* same whichever expiration failed.
C18_ErrorIsOneOfTwoTexts ==
    error # Null =>
        /\ error[1] \in FailureMessages
        /\ \A q \in 1..Len(queries) : \A i \in 1..Len(queries[q].expirations) :
             ~Includes(MessageText(error[1]), queries[q].expirations[i])

(***************************************************************************)
(* Claims about overlapping queries and the auto-refresh                   *)
(***************************************************************************)

NonePending == \A q \in 1..Len(queries) : queries[q].status # "pending"

\* What one call alone leaves on display once it has settled.
ShowsOutcomeOf(call) ==
    /\ ~loading
    /\ call.status = "fulfilled" =>
         /\ error = Null
         /\ records = [i \in 1..Len(call.expirations) |->
                          ResponseTo(call.id, call.expirations[i])]
    /\ call.status = "rejected" => error # Null /\ records = <<>>

\* C12: a query superseded by a newer one while its fetches are in flight
\* changes none of records, error and loading when it settles late, so once
\* every response has arrived the display shows the outcome of the query
\* started last.
C12_DisplayShowsLastQuery ==
    (queries # <<>> /\ NonePending) => ShowsOutcomeOf(LastCall)

\* C13: numExpirations is always one of 1, 2, 3, whatever was entered in the
\* control, and every query, started by Load or by the auto-refresh, sends at
\* least 1 and at most 3 requests.
C13_NumExpirationsInRange ==
    /\ numExpirations \in {1, 2, 3}
    /\ \A q \in 1..Len(queries) :
         /\ queries[q].params.numExpirations \in {1, 2, 3}
         /\ Len(queries[q].reqs) = queries[q].params.numExpirations
         /\ Len(queries[q].reqs) \in 1..MaxExpirations

\* The control has been taken to its upper end and back to 1 again, and both
\* a Load click and the auto-refresh have sent three requests in between.
C13_Witness ==
    /\ numExpirations = 1
    /\ \E q, r \in 1..Len(queries) :
         /\ queries[q].by = "load" /\ Len(queries[q].reqs) = 3
         /\ queries[r].by = "timer" /\ Len(queries[r].reqs) = 3

\* A call of fetchAll has not settled yet.
InFlight == \E q \in 1..Len(queries) : queries[q].status = "pending"

\* C27: loading is true in every state in which at least one query is in
\* flight, so the Load button stays disabled until the last in-flight query
\* has finished, and false when none is in flight, also when a manual Load
\* and an auto-refresh overlap.
C27_LoadingWhileInFlight == loading <=> InFlight

\* The part of C27 the code meets: loading is false when nothing is in
\* flight.
C27_IdleIsNotLoading == ~InFlight => ~loading

\* C28: in every state with no query in flight, error is non-null only if
\* records is empty: fetched results are never left hidden behind the error
\* banner of another query, and a failed query never leaves the results of an
\* earlier query on display, for any interleaving of overlapping queries.
C28_ErrorOnlyOverEmptyRecords ==
    ~InFlight => (error # Null => records = <<>>)

\* The part of C28 the code meets: the query that fails empties records in
\* the step that sets error.
C28_FailureEmptiesRecords ==
    [][(error' # Null /\ error' # error) => records' = <<>>]_vars

\* What the countdown shows: nothing while live update is off or no query has
\* been issued, and otherwise one of 1..10.
CountdownShown ==
    /\ (countdown = Null) <=> (~liveUpdate \/ lastQuery = Null)
    /\ countdown # Null => (countdown[1] >= 1 /\ countdown[1] <= RefreshSeconds)

\* One tick: down by one with no query started, or at 1 back to 10 with the
\* re-fetch; and the timer starts a query at no other step.
CountdownTick ==
    /\ Tick =>
          IF countdown = Some(1)
          THEN countdown' = Some(RefreshSeconds) /\ QueryStarts /\ StartedCall.by = "timer"
          ELSE countdown' = Some(countdown[1] - 1) /\ ~QueryStarts
    /\ (QueryStarts /\ StartedCall.by = "timer") =>
          (countdown = Some(1) /\ countdown' = Some(RefreshSeconds))

\* C29: once the auto-refresh effect has run, countdown is null exactly when
\* live update is off or no query has yet been issued, and otherwise is an
\* integer in 1..10 that decreases by 1 per tick and returns to 10 at the tick
\* on which a re-fetch is started; it never shows 0 or a negative value.
C29_CountdownWithinOneToTen == [] CountdownShown /\ [][CountdownTick]_vars

\* The countdown went from 10 down to 1, back to 10 with the re-fetch, and on
\* to 9.
C29_Witness ==
    /\ countdown = Some(RefreshSeconds - 1)
    /\ Len(queries) = 2
    /\ queries[2].by = "timer"

(***************************************************************************)
(* Claims about buildExpirationList                                        *)
(***************************************************************************)

\* The calendar date a well-formed YYYY-MM-DD string names.
DateOf(b) ==
    [year  |-> DigitValue(b[1]) * 1000 + DigitValue(b[2]) * 100
                 + DigitValue(b[3]) * 10 + DigitValue(b[4]),
     month |-> DigitValue(b[6]) * 10 + DigitValue(b[7]),
     date  |-> DigitValue(b[9]) * 10 + DigitValue(b[10])]

WellFormed(b) ==
    /\ Len(b) = 10
    /\ b[5] = "-" /\ b[8] = "-"
    /\ \A k \in {1, 2, 3, 4, 6, 7, 9, 10} : IsDigit(b[k])
    /\ DateOf(b).month \in 1..12
    /\ DateOf(b).date \in 1..DaysInMonth(DateOf(b).year, DateOf(b).month)

\* The calendar day after c.
NextDay(c) ==
    IF c.date < DaysInMonth(c.year, c.month) THEN [c EXCEPT !.date = c.date + 1]
    ELSE IF c.month < 12 THEN [c EXCEPT !.month = c.month + 1, !.date = 1]
    ELSE [year |-> c.year + 1, month |-> 1, date |-> 1]

RECURSIVE AddDays(_, _)
AddDays(c, n) == IF n = 0 THEN c ELSE AddDays(NextDay(c), n - 1)

WeeklyDates(b, n) == [i \in 1..n |-> Iso(AddDays(DateOf(b), 7 * (i - 1)))]

\* C4: for every well-formed base date YYYY-MM-DD and every count n in 1..3,
\* buildExpirationList(base, n) returns exactly n dates whose i-th element is
\* the base date plus 7*i calendar days, carried across month and year
\* boundaries; buildExpirationList("2025-11-28", 3) =
\* ["2025-11-28", "2025-12-05", "2025-12-12"].
C4_WeeklyDatesFromBase ==
    (result /= <<>> /\ WellFormed(base)) => result = WeeklyDates(base, count)

\* The part of C4 the code meets: base dates of the years 1000 and later.
C4_WeeklyDatesFromYear1000 ==
    (result /= <<>> /\ WellFormed(base) /\ DateOf(base).year >= 1000)
        => result = WeeklyDates(base, count)

\* The example of C4.
C4_Example ==
    (result /= <<>> /\ base = DefaultExpiration /\ count = 3) =>
        result = << <<"2","0","2","5","-","1","1","-","2","8">>,
                    <<"2","0","2","5","-","1","2","-","0","5">>,
                    <<"2","0","2","5","-","1","2","-","1","2">> >>

\* A list that crosses the end of a year was built.
C4_Witness ==
    /\ result /= <<>> /\ WellFormed(base) /\ count = 3
    /\ DateOf(base).year = 2025 /\ DateOf(base).month = 12 /\ DateOf(base).date = 26
    /\ result[3] = <<"2","0","2","6","-","0","1","-","0","9">>

\* C15: the pipeline is deterministic.  The list of expirations is a function
\* of the base string and the count alone, the same on every host whatever
\* its time zone, in both front ends; the classified rows are a function of
\* the response and showNeighbors (see C15_RenderIsFunction).
C15_Deterministic ==
    /\ result /= <<>> => result = buildExpirationList(base, count)
    /\ resultLocal /= Null =>
         \A offset \in HostZoneOffsets :
             resultLocal[1].list = buildExpirationListLocal(base, count, offset)

\* The part of C15 about the front end of App.tsx and the render pass: what
\* is on display is RenderApp of the state, in any state that shows it.
C15_RenderIsFunction ==
    view.rendered => view.tables = RenderApp(error, records, showNeighbors)

\* The divergence of the second front end on the default base date.
C15_Example ==
    /\ buildExpirationListLocal(DefaultExpiration, 1, 0)
         = << <<"2","0","2","5","-","1","1","-","2","8">> >>
    /\ buildExpirationListLocal(DefaultExpiration, 2, -300)
         = << <<"2","0","2","5","-","1","1","-","2","7">>,
              <<"2","0","2","5","-","1","2","-","0","4">> >>


(***************************************************************************)
(* Claims about the render pass                                            *)
(***************************************************************************)

Classifications == {"best", "opportunity", "candidate_strong", "candidate", "neighbor"}

\* The rows of expiration i that reach the main table, as the response gave them.
ShownInput(i) ==
    LET data == records[i]
        all  == data.opportunities \o (IF showNeighbors THEN data.neighbors ELSE <<>>)
    IN  {all[k] : k \in 1..Len(all)}

\* The rendered rows of expiration i that carry the option_ticker t.
ShownAs(i, t) ==
    LET rows == view.tables[i].rows
    IN  {rows[k] : k \in {j \in 1..Len(rows) : rows[j].option_ticker = t}}

\* First-pass 'opportunity': type opportunity with the three flags true.
FirstPassOpportunity(r) ==
    r.type = "opportunity" /\ r.meets_band /\ r.meets_delta /\ r.meets_credit

\* The credits present among the first-pass opportunities of expiration i.
OpportunityCredits(i) ==
    {r.credit_pct[1] : r \in {x \in ShownInput(i) : FirstPassOpportunity(x) /\ x.credit_pct /= Null}}

ViewShowsTables == view.rendered /\ error = Null /\ Len(records) > 0

\* C1: within one expiration, among the rows whose first-pass classification
\* is 'opportunity', exactly the rows whose credit_pct equals the maximum
\* credit_pct over that set end 'best': every row tied at the maximum is
\* 'best', and no row with a smaller credit and no row outside the set is.
C1_BestIsExactlyMaxCredit ==
    ViewShowsTables =>
        \A i \in 1..Len(records) :
            /\ Len(view.tables[i].rows) = Cardinality(ShownInput(i))
            /\ \A r \in ShownInput(i) :
                 /\ Cardinality(ShownAs(i, r.option_ticker)) = 1
                 /\ \A out \in ShownAs(i, r.option_ticker) :
                      (out.classification = "best") <=>
                          /\ FirstPassOpportunity(r)
                          /\ r.credit_pct /= Null
                          /\ r.credit_pct[1] = SetMax(OpportunityCredits(i))

\* Two rows tied at the maximum credit are both 'best', next to no other row.
C1_Witness ==
    /\ ViewShowsTables
    /\ \E a, b \in ShownInput(1) :
         /\ a.option_ticker /= b.option_ticker
         /\ FirstPassOpportunity(a) /\ FirstPassOpportunity(b)
         /\ a.credit_pct /= Null /\ a.credit_pct = b.credit_pct
         /\ \A out \in ShownAs(1, a.option_ticker) \cup ShownAs(1, b.option_ticker) :
                out.classification = "best"

\* The rendered rows of expiration i that ended 'best'.
BestRows(i) ==
    LET rows == view.tables[i].rows
    IN  {k \in 1..Len(rows) : rows[k].classification = "best"}

\* C26: a full-match row (first-pass 'opportunity') whose credit_pct is absent
\* is never promoted to 'best' and keeps classification 'opportunity'; and an
\* expiration has a 'best' row exactly when one of its full-match rows has a
\* credit_pct: with no full match, or all of them lacking credit_pct, no row
\* is 'best'.
C26_NoCreditNoBest ==
    ViewShowsTables =>
        \A i \in 1..Len(records) :
            /\ \A r \in ShownInput(i) :
                 (FirstPassOpportunity(r) /\ r.credit_pct = Null) =>
                     /\ ShownAs(i, r.option_ticker) # {}
                     /\ \A out \in ShownAs(i, r.option_ticker) :
                          out.classification = "opportunity"
            /\ (BestRows(i) # {}) <=> (OpportunityCredits(i) # {})

\* A full match without credit_pct stays 'opportunity' next to a 'best' row.
C26_Witness ==
    /\ ViewShowsTables
    /\ BestRows(1) # {}
    /\ \E r \in ShownInput(1) :
         /\ FirstPassOpportunity(r) /\ r.credit_pct = Null
         /\ \A out \in ShownAs(1, r.option_ticker) : out.classification = "opportunity"

\* Every full match lacks credit_pct and no row is 'best'.
C26_WitnessNoneBest ==
    /\ ViewShowsTables
    /\ BestRows(1) = {}
    /\ \E r \in ShownInput(1) : FirstPassOpportunity(r)
    /\ \A r \in ShownInput(1) : FirstPassOpportunity(r) => r.credit_pct = Null

\* C3: a row whose type is 'neighbor' always ends with final classification
\* 'neighbor', whatever its flags and its credit_pct.
C3_NeighborStaysNeighbor ==
    ViewShowsTables =>
        \A i \in 1..Len(records) :
            \A r \in ShownInput(i) :
                r.type = "neighbor" =>
                    /\ ShownAs(i, r.option_ticker) /= {}
                    /\ \A out \in ShownAs(i, r.option_ticker) :
                          /\ out.classification = "neighbor"
                          /\ out.score = ""

\* A neighbor with its three flags true and a credit above that of every
\* opportunity row is on display beside an opportunity row that is 'best'.
C3_Witness ==
    /\ ViewShowsTables /\ showNeighbors
    /\ \E n, o \in ShownInput(1) :
         /\ n.type = "neighbor" /\ n.meets_band /\ n.meets_delta /\ n.meets_credit
         /\ FirstPassOpportunity(o)
         /\ n.credit_pct /= Null /\ o.credit_pct /= Null
         /\ n.credit_pct[1] > o.credit_pct[1]
         /\ \A out \in ShownAs(1, o.option_ticker) : out.classification = "best"
         /\ \A out \in ShownAs(1, n.option_ticker) : out.classification = "neighbor"

\* Another expiration of the same batch: empty, or holding one full match whose
\* credit is absent, equal to, or above the credits of the rows under test.
OtherExpiration == <<"2","0","2","5","-","1","2","-","0","5">>

OtherResponses ==
    {MkResponse(OtherExpiration, <<>>, <<>>, 0)} \cup
    {MkResponse(OtherExpiration,
                <<[meets_band |-> TRUE, meets_delta |-> TRUE, meets_credit |-> TRUE,
                   credit_pct |-> c]>>, <<>>, 0) :
        c \in {Null} \cup {Some(v) : v \in CreditValues \cup {SetMax(CreditValues) + 10}}}

\* An expiration the back end found nothing for.
IsEmptyExpiration(data) ==
    data.opportunities = <<>> /\ data.neighbors = <<>> /\ data.incomplete = <<>>

EmptyTables == [rows |-> <<>>, incomplete |-> <<>>]

\* The rows of one expiration that enter the main table.
VisibleRows(data) == Prelim(SortByStrike(baseRows(data, showNeighbors)))

\* C14: for an expiration whose opportunities, neighbors and incomplete are
\* all empty the render pass produces no classified row, computes no maximum
\* credit and promotes nothing, and produces an empty incomplete list; the
\* batch is rendered all the same, each of its other expirations as it is
\* rendered alone.
C14_EmptyExpirationRenders ==
    ViewShowsTables =>
        /\ Len(view.tables) = Len(records)
        /\ \A i \in 1..Len(records) :
             /\ IsEmptyExpiration(records[i]) =>
                  /\ view.tables[i] = EmptyTables
                  /\ MaxCreditOf(VisibleRows(records[i])) = Null
             /\ VisibleRows(records[i]) = <<>> =>
                  /\ view.tables[i].rows = <<>>
                  /\ MaxCreditOf(VisibleRows(records[i])) = Null
             /\ LET empty == MkResponse(OtherExpiration, <<>>, <<>>, 0)
                    batch == RenderApp(error, <<empty, records[i]>>, showNeighbors)
                IN  /\ Len(batch) = 2
                    /\ batch[1] = EmptyTables
                    /\ batch[2] = view.tables[i]

\* The only expiration of the batch is empty, and it has been rendered.
C14_Witness ==
    /\ ViewShowsTables
    /\ Len(records) = 1
    /\ IsEmptyExpiration(records[1])
    /\ view.tables = <<EmptyTables>>

\* The place of the row with option_ticker t in the sequence s.
PlaceOf(s, t) == CHOOSE k \in 1..Len(s) : s[k].option_ticker = t

\* `out` holds the rows of `inp`, each once, in non-decreasing strike order,
\* rows of equal strike in the order they have in `inp`.
IsStableSortOf(out, inp) ==
    /\ Len(out) = Len(inp)
    /\ \A k \in 1..Len(inp) :
         \E a \in 1..Len(out) :
             /\ out[a].option_ticker = inp[k].option_ticker
             /\ out[a].strike_price = inp[k].strike_price
             /\ \A b \in 1..Len(out) : out[b].option_ticker = inp[k].option_ticker => b = a
    /\ \A a, b \in 1..Len(out) :
         a < b =>
             /\ out[a].strike_price <= out[b].strike_price
             /\ out[a].strike_price = out[b].strike_price =>
                  PlaceOf(inp, out[a].option_ticker) < PlaceOf(inp, out[b].option_ticker)

MainAndIncompleteSorted ==
    ViewShowsTables =>
        \A i \in 1..Len(records) :
            /\ IsStableSortOf(view.tables[i].rows,
                              records[i].opportunities \o
                                  (IF showNeighbors THEN records[i].neighbors ELSE <<>>))
            /\ IsStableSortOf(view.tables[i].incomplete, records[i].incomplete)

\* C16: for every expiration the rows of the main table (opportunities, with
\* the neighbors when shown) are in non-decreasing strike_price order, and so
\* are the incomplete rows; rows of equal strike keep their input order,
\* opportunities before neighbors; and no render pass changes records.
C16_SortedByStrikeStable == [] MainAndIncompleteSorted /\ [][records' = records]_vars

\* Two opportunities came in falling strike order, followed by a neighbor
\* of the lower strike: the table has the lower opportunity, then the
\* neighbor, then the higher opportunity.
C16_Witness ==
    /\ ViewShowsTables
    /\ showNeighbors
    /\ LET data == records[1]
           out  == view.tables[1].rows
       IN  /\ Len(data.opportunities) = 2 /\ Len(data.neighbors) = 1
           /\ data.opportunities[1].strike_price > data.opportunities[2].strike_price
           /\ data.neighbors[1].strike_price = data.opportunities[2].strike_price
           /\ Len(out) = 3
           /\ out[1].option_ticker = data.opportunities[2].option_ticker
           /\ out[2].option_ticker = data.neighbors[1].option_ticker
           /\ out[3].option_ticker = data.opportunities[1].option_ticker

\* C17: in every rendered table a row's score is the star exactly when its
\* final classification is 'best', the check mark exactly when it is
\* 'opportunity', and empty for 'candidate_strong', 'candidate' and
\* 'neighbor'.  ("STAR" and "CHECK" stand for the two symbols.)
C17_ScoreMatchesClassification ==
    ViewShowsTables =>
        \A i \in 1..Len(view.tables) :
            \A k \in 1..Len(view.tables[i].rows) :
                LET row == view.tables[i].rows[k]
                IN  /\ row.classification \in Classifications
                    /\ row.score = "STAR" <=> row.classification = "best"
                    /\ row.score = "CHECK" <=> row.classification = "opportunity"
                    /\ row.classification \in {"candidate_strong", "candidate", "neighbor"}
                         <=> row.score = ""

\* A table with a promoted row and a full match that was not promoted.
C17_Witness ==
    /\ ViewShowsTables
    /\ LET rows == view.tables[1].rows
       IN  /\ Len(rows) = 2
           /\ \E a, b \in 1..2 :
                /\ rows[a].classification = "best" /\ rows[a].score = "STAR"
                /\ rows[b].classification = "opportunity" /\ rows[b].score = "CHECK"

\* A table with a strong candidate and a neighbor, both without a marker.
C17_WitnessNoMarker ==
    /\ ViewShowsTables
    /\ LET rows == view.tables[1].rows
       IN  /\ Len(rows) = 2
           /\ \E a, b \in 1..2 :
                /\ rows[a].classification = "candidate_strong" /\ rows[a].score = ""
                /\ rows[b].classification = "neighbor" /\ rows[b].score = ""

\* C10: the final classification and score of every row of one expiration
\* depend only on that expiration's own rows: with any other expiration
\* before or after it in the batch, its rendered rows are those it has alone.
C10_ExpirationsIndependent ==
    ViewShowsTables =>
        \A other \in OtherResponses :
            /\ RenderApp(error, records \o <<other>>, showNeighbors)[1] = view.tables[1]
            /\ RenderApp(error, <<other>> \o records, showNeighbors)[2] = view.tables[1]

\* The expiration on display has a 'best' row whose credit is below that of a
\* full match of the other expiration.
C10_Witness ==
    /\ ViewShowsTables
    /\ \E k \in 1..Len(view.tables[1].rows) :
         /\ view.tables[1].rows[k].classification = "best"
         /\ \E other \in OtherResponses :
              /\ Len(other.opportunities) = 1
              /\ other.opportunities[1].credit_pct /= Null
              /\ other.opportunities[1].credit_pct[1] > view.tables[1].rows[k].credit_pct[1]

(***************************************************************************)
(* Claims about the back end's lists                                       *)
(***************************************************************************)

\* How many rows of the sequence carry the option_ticker t.
Occurrences(rows, t) == Cardinality({k \in 1..Len(rows) : rows[k].option_ticker = t})

ChainTickers == {chain[k].option_ticker : k \in 1..Len(chain)}

Responded == response /= Null

Shown == response /= Null /\ view.rendered /\ Len(view.tables) = 1

\* C5: for one expiration, every contract (identified by option_ticker)
\* appears in at most one of opportunities, neighbors and incomplete, and at
\* most once there; so no contract is shown twice in the merged main table,
\* or in both the main table and the incomplete table.
C5_ContractInAtMostOneList ==
    /\ Responded =>
         \A t \in ChainTickers :
            Occurrences(response[1].opportunities, t)
              + Occurrences(response[1].neighbors, t)
              + Occurrences(response[1].incomplete, t) <= 1
    /\ Shown =>
         \A t \in ChainTickers :
            Occurrences(view.tables[1].rows, t)
              + Occurrences(view.tables[1].incomplete, t) <= 1

\* A chain whose two contracts went to different lists is on display, one in
\* the main table and one in the incomplete table.
C5_Witness ==
    /\ Shown
    /\ Len(view.tables[1].rows) = 1
    /\ Len(view.tables[1].incomplete) = 1
    /\ view.tables[1].rows[1].option_ticker /= view.tables[1].incomplete[1].option_ticker

FlagFields == {"meets_band", "meets_delta", "meets_credit"}

\* C7: a contract whose delta is absent is always placed in incomplete with a
\* reason_missing, and never in opportunities or neighbors, whatever its
\* strike and its credit; none of its eligibility flags is computed.
C7_MissingDeltaIsIncomplete ==
    Responded =>
        \A p \in 1..Len(chain) :
            chain[p].delta = Null =>
                /\ Occurrences(response[1].opportunities, chain[p].option_ticker) = 0
                /\ Occurrences(response[1].neighbors, chain[p].option_ticker) = 0
                /\ Occurrences(response[1].incomplete, chain[p].option_ticker) = 1
                /\ \A k \in 1..Len(response[1].incomplete) :
                     response[1].incomplete[k].option_ticker = chain[p].option_ticker =>
                        /\ response[1].incomplete[k].reason_missing /= ""
                        /\ DOMAIN response[1].incomplete[k] \cap FlagFields = {}

\* A contract with no delta, a strike inside the band window and a credit
\* that meets the filter was answered as incomplete.
C7_Witness ==
    /\ Responded
    /\ \E p \in 1..Len(chain) :
         /\ chain[p].delta = Null
         /\ chain[p].put_mid = Some(70)
         /\ chain[p].strike_price = 96 /\ filter[1].bandWindow = 2
         /\ Occurrences(response[1].incomplete, chain[p].option_ticker) = 1

C2_ClassifyRowTable ==
    cresult /= Null =>
        LET r == crow[1]
            both    == r.meets_delta /\ r.meets_credit
            neither == ~r.meets_delta /\ ~r.meets_credit
        IN  /\ cresult[1] \in Classifications
            /\ (r.type = "neighbor" \/ ~r.meets_band) => cresult[1] = "neighbor"
            /\ (r.type = "opportunity" /\ r.meets_band /\ both)
                   => cresult[1] = "opportunity"
            /\ (r.type = "opportunity" /\ r.meets_band /\ ~both /\ ~neither)
                   => cresult[1] = "candidate_strong"
            /\ (r.type = "opportunity" /\ r.meets_band /\ neither)
                   => cresult[1] = "candidate"

\* An in-band opportunity row that meets the credit filter alone was classified.
C2_Witness ==
    /\ cresult = Some("candidate_strong")
    /\ crow[1].meets_credit /\ ~crow[1].meets_delta

====
